---- MODULE Spec2Model ----
(***************************************************************************)
(* nacwrap: authenticated client for the Nintex Workflow Cloud API.        *)
(*                                                                         *)
(* The model covers the authenticated transport layer:                     *)
(*   - the credential state kept in os.environ (src/nacwrap.py),           *)
(*   - Decorators.refresh_token / Decorators.get_token (src/nacwrap.py),   *)
(*   - the tenacity retry policy _basic_retry and the four request         *)
(*     helpers _fetch_page/_post/_put/_delete (src/nacwrap/_helpers.py),   *)
(*   - the nextLink loops of the list operations (instances.py, tasks.py,  *)
(*     workflows.py) and the single-request operations around them.        *)
(*                                                                         *)
(* Python dictionaries (os.environ, JSON bodies) are functions whose       *)
(* DOMAIN is the set of keys present.  Each caller (thread) has a frame    *)
(* holding the locals of the call it is executing and a program counter.   *)
(* The remote servers (identity endpoint, resource endpoints) and the      *)
(* clock are the environment: their answers are chosen nondeterministically*)
(* from small sets.                                                        *)
(***************************************************************************)
EXTENDS Integers, Sequences, FiniteSets, TLC

VARIABLES
    env,     \* os.environ: configuration and credential keys
    now,     \* datetime.now(), in abstract time units
    world,   \* the environment of this run: callers, clock, servers
    frame,   \* per caller: program counter and locals of the running call
    obs      \* per caller: what the servers and the caller observed (history)

vars == <<env, now, world, frame, obs>>

----------------------------------------------------------------------------
(* Bounds of the model *)

\* the clock runs from 0 to MaxTime
MaxTime == 2
\* the identity server declares an expiry TokenTTL time units after issuance
TokenTTL == 1
\* the resource server serves chains of at most MaxPages pages
MaxPages == 3
\* the result set the resource server pages through holds at most MaxItems items
MaxItems == 5

----------------------------------------------------------------------------
(* Values *)

Callers == {"A", "B"}

\* items a page can hold
Items == {"x", "y"}

\* access tokens the identity endpoint hands out
Tokens == {"t1", "t2"}

\* filter parameters / identifiers a caller passes
Args == {"q1", "q2"}

\* continuation references the resource server hands out
Links == {<<"link", "L1">>, <<"link", "L2">>}

\* Python None (also JSON null / key missing for dict.get)
None == <<>>

\* the empty string, falsy like None
EmptyStr == <<"">>

\* the empty dictionary
EmptyDict == [k \in {} |-> 0]

\* d[k] = v on a dictionary
DictSet(d, k, v) == [x \in (DOMAIN d) \cup {k} |-> IF x = k THEN v ELSE d[x]]

\* {**a, **b}
DictMerge(a, b) ==
    [x \in (DOMAIN a) \cup (DOMAIN b) |-> IF x \in DOMAIN b THEN b[x] ELSE a[x]]

\* d.get(k): None when the key is missing
DictGet(d, k) == IF k \in DOMAIN d THEN d[k] ELSE None

\* a loop test `while url is not None:`
TruthyNotNone(u) == u # None

\* truth value of a url in `while url:`
Truthy(u) == u \notin {None, EmptyStr}

\* sequences over S of length at most n
RECURSIVE SeqsUpTo(_, _)
SeqsUpTo(S, n) ==
    IF n = 0 THEN {<<>>}
    ELSE LET shorter == SeqsUpTo(S, n - 1)
         IN  shorter \cup {Append(s, x) : s \in {t \in shorter : Len(t) = n - 1}, x \in S}

----------------------------------------------------------------------------
(* Operations and their decorators *)

\* the operations of nacwrap/instances.py, tasks.py and workflows.py that send
\* through the helpers of _helpers.py or run under a retry policy, and _delete
HelperOps == {"instances_list", "task_search", "workflows_list", "instance_get",
              "create_instance", "instance_resolve", "instance_start_data",
              "task_delegate", "_delete"}

\* the operations that call requests themselves, once, with no retry policy;
\* "nacwrap.create_instance" is the create_instance of src/nacwrap.py
DirectOps == {"task_complete", "task_get",
              "workflow_permissions_list", "workflow_permissions_update",
              "workflow_design_return", "workflow_delete", "workflow_pause",
              "workflow_unpause", "workflow_add_tags", "workflow_export",
              "workflow_import", "workflow_dependencies_return",
              "workflow_publish_config", "nacwrap.create_instance"}

Ops == HelperOps \cup DirectOps

\* the functions that call an operation and convert or pass on its result
Wrappers == {"instance_get_pd", "get_instance_data", "instances_list_pd",
             "instance_start_data_pd", "task_search_pd", "workflows_list_pd"}

\* the public functions a caller can invoke
Functions == Ops \cup Wrappers

\* the operation a function runs
Target(fn) ==
    CASE fn = "instance_get_pd"        -> "instance_get"
      [] fn = "get_instance_data"      -> "instances_list"
      [] fn = "instances_list_pd"      -> "instances_list"
      [] fn = "instance_start_data_pd" -> "instance_start_data"
      [] fn = "task_search_pd"         -> "task_search"
      [] fn = "workflows_list_pd"      -> "workflows_list"
      [] OTHER                         -> fn

\* the values of the argument that selects a behaviour of the function:
\* the pydantic_model of instance_start_data_pd (the field-less
\* InstanceStartData or a subclass with required fields, as the
\* PurchDocStartData of the tests) and the workflow_status of
\* workflow_dependencies_return (None by default)
Options(fn) ==
    CASE fn = "instance_start_data_pd"        -> {"InstanceStartData", "PurchDocStartData"}
      [] fn = "workflow_dependencies_return"  -> {"None", "published"}
      [] OTHER                                -> {"none"}

\* wrappers that carry @Decorators.refresh_token themselves, on top of the
\* decorator of the operation they call
GuardedWrapper(fn) == fn = "instances_list_pd"

\* operations decorated with @Decorators.refresh_token
Guarded(op) == op \notin {"task_delegate", "_delete"}

\* operations decorated with @_basic_retry on top of @Decorators.refresh_token
OuterRetry(op) == op \in {"create_instance", "instance_get"}

\* operations whose body is a `while url:` loop following nextLink
Walks(op) == op \in {"instances_list", "task_search", "workflows_list", "instance_get"}

\* list operations: the loop appends data[PayloadKey] to a list
Lists(op) == op \in {"instances_list", "task_search", "workflows_list"}

\* the key of the page's item list
PayloadKey(op) ==
    CASE op = "instances_list" -> "instances"
      [] op = "task_search"    -> "tasks"
      [] op = "workflows_list" -> "workflows"
      [] OTHER                 -> "none"

\* operations that send through the helpers of _helpers.py (the others call
\* requests directly)
ViaExecutor(op) == op \in HelperOps \ {"create_instance"}

\* operations whose except clauses raise Timeout and ConnectionError again
\* (`except (Timeout, ConnectionError): raise`) instead of wrapping them
ReraisesTransient(op) ==
    op \in {"create_instance", "instances_list", "workflows_list", "instance_get"}
        \cup (DirectOps \ {"task_complete", "task_get", "nacwrap.create_instance"})

\* operations that end with `return response.json()`; the others return None
\* (or, _delete, the response)
ReturnsJson(op) ==
    op \in {"create_instance", "instance_start_data", "task_complete", "task_get",
            "workflow_permissions_list", "workflow_design_return", "workflow_export",
            "workflow_import", "workflow_dependencies_return",
            "workflow_publish_config", "nacwrap.create_instance"}

\* operations that POST a new workflow instance
Creates(op) == op \in {"create_instance", "nacwrap.create_instance"}

\* the timeout argument of the operation's request, in seconds; task_complete
\* and task_get pass none
HasTimeout(op) == op \notin {"task_complete", "task_get"}
RequestTimeout(op) ==
    IF ~HasTimeout(op) THEN None
    ELSE IF op \in DirectOps \ {"nacwrap.create_instance"} THEN <<60>>
    ELSE <<30>>

\* HTTP method of the operation's request
Method(op) ==
    CASE op \in {"create_instance", "instance_resolve", "workflow_pause",
                 "workflow_unpause", "workflow_export", "workflow_import",
                 "nacwrap.create_instance"}             -> "POST"
      [] op \in {"task_delegate", "workflow_permissions_update", "workflow_add_tags",
                 "workflow_publish_config"}             -> "PUT"
      [] op = "task_complete"                          -> "PATCH"
      [] op \in {"_delete", "workflow_delete"}          -> "DELETE"
      [] OTHER                                         -> "GET"

\* the url the operation builds before its first request
InitialUrl(op, a) ==
    IF op \in {"instances_list", "task_search", "workflow_import"} THEN <<"base", op>>
    ELSE IF Creates(op) THEN <<"base", "create_instance", a>>
    ELSE <<"base", op, a>>

\* json.dumps(v): the JSON text of v; json.dumps(None) is the text "null"
JsonDumps(v) == <<"json", v>>

\* the body the operation sends with its request: create_instance serialises
\* {"startData": start_data} itself; _put and _post serialise the data they
\* are handed, and instance_resolve hands _post none; requests serialises a
\* json= argument; the other requests have no body
RequestData(op, a) ==
    CASE Creates(op)                         -> JsonDumps(<<"startData", a>>)
      [] op = "task_delegate"                -> JsonDumps(<<"assignees, message", a>>)
      [] op = "instance_resolve"             -> JsonDumps(None)
      [] op = "task_complete"                -> JsonDumps(<<"outcome", a>>)
      [] op = "workflow_permissions_update"  -> JsonDumps(<<"permissions", a>>)
      [] op = "workflow_add_tags"            -> JsonDumps(<<"tags", a>>)
      [] op = "workflow_import"              -> JsonDumps(<<"key, name", a>>)
      [] op = "workflow_publish_config"      -> JsonDumps(<<"dependency_config", a>>)
      [] OTHER                               -> None

\* the query parameters the operation passes with its first request
\* (workflow_dependencies_return passes some only when it is given a
\* workflow_status)
InitialParams(op, a, option) ==
    CASE op \in {"instances_list", "task_search", "instance_get"}  -> <<"params", a>>
      [] op = "workflow_dependencies_return"
           -> IF option = "None" THEN None ELSE <<"params", a>>
      [] op \in {"instance_resolve", "instance_start_data"}        -> <<"params">>
      [] OTHER                                                     -> None

----------------------------------------------------------------------------
(* Credential state in os.environ *)

ConfigKeys == {"NINTEX_BASE_URL", "NINTEX_CLIENT_ID", "NINTEX_CLIENT_SECRET",
               "NINTEX_GRANT_TYPE"}

\* the format the guard parses
GuardFormat == "%m/%d/%Y %H:%M:%S"

\* "01/01/1901 00:00:00" lies before every time of the clock
Year1901 == -1

\* a timestamp string: its format and the time it denotes
TimeString(fmt, t) == [fmt |-> fmt, t |-> t]

\* the guard's default when NTX_BEARER_TOKEN_EXPIRES_AT is not set
DefaultExpiresAt == TimeString(GuardFormat, Year1901)

\* datetime.strptime(s, "%m/%d/%Y %H:%M:%S"): ValueError on another format
StrptimeRaises(s) == s.fmt # GuardFormat
Strptime(s) == s.t

\* the expires_at the guard compares, lines 35-38
GuardExpiresAt(e) ==
    IF "NTX_BEARER_TOKEN_EXPIRES_AT" \notin DOMAIN e
    THEN DefaultExpiresAt
    ELSE e["NTX_BEARER_TOKEN_EXPIRES_AT"]

\* a guard that refreshes only when no token is stored
GuardDecisionTokenOnly(e, t) ==
    IF "NTX_BEARER_TOKEN" \notin DOMAIN e THEN "get_token" ELSE "decorated"

\* the guard's decision, lines 39-44: `or` evaluates strptime only when the
\* token is present
GuardDecision(e, t) ==
    IF "NTX_BEARER_TOKEN" \notin DOMAIN e THEN "get_token"
    ELSE IF StrptimeRaises(GuardExpiresAt(e)) THEN "ValueError"
    ELSE IF Strptime(GuardExpiresAt(e)) < t THEN "get_token"
    ELSE "decorated"

\* the key get_token stores the expiry under, line 84
ExpiryKey == "NTX_EXPIRES_AT"

\* the credential the store holds at time t: no token, a token whose stored
\* expiry is missing or earlier than t, or a token with a later expiry
CredentialState(e, t) ==
    IF "NTX_BEARER_TOKEN" \notin DOMAIN e THEN "absent"
    ELSE IF ExpiryKey \notin DOMAIN e THEN "expired"
    ELSE IF e[ExpiryKey].t < t THEN "expired"
    ELSE "valid"

\* a provider that only checks the base url
MissingConfigBaseUrlOnly(e) == {"NINTEX_BASE_URL"} \ DOMAIN e

\* the configuration keys get_token finds missing, lines 54-61
MissingConfig(e) == ConfigKeys \ DOMAIN e


----------------------------------------------------------------------------
(* The retry policy _basic_retry (tenacity) *)

\* stop_after_attempt(5)
MaxAttempts == 5

\* statuses outside 2xx for which raise_for_status does not raise (it raises
\* for 400..599 only): a redirect that requests does not follow, a status
\* above 599
OtherStatuses == {301, 600}

\* retry_if_exception_type((ConnectionError, Timeout))
TransientErrors == {"ConnectionError", "Timeout"}

\* exceptions of requests that are neither transient nor HTTPError: too many
\* redirects, a chunked body that breaks off
OtherRequestExceptions == {"TooManyRedirects", "ChunkedEncodingError"}

\* the subclasses of requests.exceptions.RequestException that occur
RequestExceptions == TransientErrors \cup {"HTTPError"} \cup OtherRequestExceptions

\* an exception: its type and what its message carries
Exc(type, msg) == [type |-> type, msg |-> msg]
NoExc == Exc("none", <<>>)

\* a policy that stops one attempt late
RetryDecisionOffByOne(n, t) ==
    IF t \notin TransientErrors THEN "propagate"
    ELSE IF n > MaxAttempts THEN "RetryError"
    ELSE "retry"

\* a policy that retries after every exception
RetryDecisionAnyException(n, t) ==
    IF n >= MaxAttempts THEN "RetryError" ELSE "retry"

\* a policy that also counts the RetryError of an inner policy as transient
RetryDecisionRetriesRetryError(n, t) ==
    IF t \notin TransientErrors \cup {"RetryError"} THEN "propagate"
    ELSE IF n >= MaxAttempts THEN "RetryError"
    ELSE "retry"

\* what tenacity does after attempt number n ended with exception type t:
\* call again, give up with RetryError (reraise is not set), or let the
\* exception through
RetryDecision(n, t) ==
    IF t \notin TransientErrors THEN "propagate"
    ELSE IF n >= MaxAttempts THEN "RetryError"
    ELSE "retry"

\* wait_exponential(multiplier=1, min=4, max=10)
WaitMultiplier == 1
WaitMin == 4
WaitMax == 10

Max2(a, b) == IF a >= b THEN a ELSE b
Min2(a, b) == IF a <= b THEN a ELSE b

\* the seconds tenacity sleeps after attempt number n has failed:
\* max(max(0, min), min(multiplier * 2 ** (n - 1), max))
WaitExponential(n) ==
    Max2(Max2(0, WaitMin), Min2(WaitMultiplier * 2 ^ (n - 1), WaitMax))

\* Response.raise_for_status(): HTTPError for 4xx and 5xx
RaiseForStatus(status) == status >= 400 /\ status < 600

\* the exception an operation raises from its `except HTTPError` clause
OpError(op, status, content) ==
    Exc(IF op = "workflows_list" THEN "WorkflowApiError" ELSE "Exception",
        <<status, content>>)

----------------------------------------------------------------------------
(* Frames *)

NoResponse == [status |-> 0, json_ok |-> FALSE, body |-> EmptyDict]

IdleFrame ==
    [pc |-> "idle", fn |-> "none", op |-> "none", arg |-> "none",
     option |-> "none",     \* the argument of the function that selects a behaviour
     inner |-> FALSE,       \* whether the operation the function calls has been entered
     url |-> None, params |-> None, first_request |-> FALSE, results |-> <<>>,
     headers |-> "none", response |-> NoResponse,
     attempt |-> 0, outer_attempt |-> 0,
     waits |-> <<>>,        \* the sleeps of the helper's policy during this request
     outer_waits |-> <<>>,  \* the sleeps of the policy around the wrapper
     ret |-> <<>>, err |-> NoExc]

IdleObs ==
    [start_time |-> 0,         \* the clock when the call was made
     empty_at_start |-> FALSE, \* no token was stored when the call was made
     provider_calls |-> 0,  \* invocations of get_token during the call
     sent |-> <<>>,         \* the requests handed to the executor, in order
     served |-> <<>>,       \* the pages the resource server answered with
     faulted |-> FALSE,     \* whether an attempt ended in a transient fault
     identity_posts |-> 0,  \* POSTs to the identity endpoint during the call
     granted |-> "none",    \* the token the identity endpoint last issued to the call
     created |-> 0,         \* instance-creation POSTs of the call the server processed
     tries |-> 0,           \* HTTP attempts made for the request not yet answered
     answer |-> [status |-> 0, body |-> EmptyDict, exc |-> "none"]]
                            \* status and body of the resource server's latest answer,
                            \* or the exception the transport raised instead

\* the locals of a call are gone once it has returned or raised
Finished(f, pc, ret, err) ==
    [IdleFrame EXCEPT !.pc = pc, !.fn = f.fn, !.op = f.op, !.arg = f.arg,
                      !.option = f.option,
                      !.inner = f.inner,
                      !.attempt = f.attempt, !.outer_attempt = f.outer_attempt,
                      !.waits = f.waits, !.outer_waits = f.outer_waits,
                      !.ret = ret, !.err = err]

\* pydantic validation of one record: "x" stands for a record with every
\* required field, any other item for a record that lacks one
ValidItem(i) == i = "x"

\* pydantic validation of a dictionary against InstanceActions: the key
\* "status" stands for the required fields
ValidInstance(d) == "status" \in DOMAIN d

\* pydantic validation of start data against the model class the caller
\* passed: InstanceStartData has no fields; the key "se_txtrequestor" stands
\* for the fields a subclass requires
ValidStartData(model, d) == model = "InstanceStartData" \/ "se_txtrequestor" \in DOMAIN d

\* what the function hands to its caller from the result of the operation it
\* ran: the pydantic wrappers build models from it, which raises
\* ValidationError when a record does not validate; get_instance_data and the
\* operations themselves return the result as it is
Convert(fn, option, ret) ==
    CASE fn \in {"instances_list_pd", "task_search_pd"} ->
           IF \A i \in 1..Len(ret) : ValidItem(ret[i])
           THEN [ok |-> TRUE, value |-> [i \in 1..Len(ret) |-> <<"model", ret[i]>>]]
           ELSE [ok |-> FALSE, value |-> <<>>]
      [] fn = "workflows_list_pd" ->
           IF \A i \in 1..Len(ret) : ValidItem(ret[i])
           THEN [ok |-> TRUE, value |-> <<"NintexWorkflows", ret>>]
           ELSE [ok |-> FALSE, value |-> <<>>]
      [] fn = "instance_get_pd" ->
           IF ValidInstance(ret)
           THEN [ok |-> TRUE, value |-> <<"InstanceActions", ret>>]
           ELSE [ok |-> FALSE, value |-> <<>>]
      [] fn = "instance_start_data_pd" ->
           IF ValidStartData(option, ret)
           THEN [ok |-> TRUE, value |-> <<option, ret>>]
           ELSE [ok |-> FALSE, value |-> <<>>]
      [] OTHER -> [ok |-> TRUE, value |-> ret]

Returned(f, ret) ==
    LET v == Convert(f.fn, f.option, ret)
    IN  IF v.ok THEN Finished(f, "returned", v.value, NoExc)
        ELSE Finished(f, "raised", <<>>, Exc("ValidationError", <<>>))

\* a list operation that hands back what it has accumulated when a page fails
RaisedReturnsPartial(f, e) ==
    IF Lists(f.op) /\ f.results # <<>>
    THEN Returned(f, f.results)
    ELSE Finished(f, "raised", <<>>, e)

\* an exception leaves the decorated function and its refresh_token wrapper:
\* create_instance and instance_get are wrapped once more by _basic_retry,
\* which calls the wrapper again after a transient error
Raised(f, e) ==
    IF OuterRetry(f.op) /\ RetryDecision(f.outer_attempt, e.type) = "retry"
    THEN [IdleFrame EXCEPT !.pc = "wrapper", !.fn = f.fn, !.op = f.op, !.arg = f.arg,
                           !.option = f.option,
                           !.inner = TRUE,
                           !.outer_attempt = f.outer_attempt + 1,
                           !.outer_waits = Append(f.outer_waits,
                                                  WaitExponential(f.outer_attempt))]
    ELSE IF OuterRetry(f.op) /\ RetryDecision(f.outer_attempt, e.type) = "RetryError"
    THEN Finished(f, "raised", <<>>, Exc("RetryError", <<>>))
    ELSE Finished(f, "raised", <<>>, e)

----------------------------------------------------------------------------
(* Initial state: process start, no credential stored *)

Configs == {[k \in S |-> "set"] : S \in SUBSET ConfigKeys}

\* The environment is explored in eight regimes.
\*   Open: the clock advances, the identity endpoint and the network may fail
\*     in every way, expiries come in a format the guard does not parse; the
\*     resource server's pages all hold the same item list and the caller
\*     passes one argument value.
\*   Fixture: a fake resource server serving every chain of pages over Items
\*     (at most MaxPages pages, MaxItems items); the clock stands still, the
\*     identity endpoint always grants the same token, with the expiry in the
\*     guard's format, there are no transient faults and the caller passes
\*     one argument value.
\*   Race: two callers run guarded single-request operations at the same
\*     instant; every exchange at the identity endpoint succeeds and may hand
\*     out either token.
\*   Endless: a resource server that puts a continuation reference on every
\*     page it serves; the model follows it for MaxPages pages.
\*   Flaky: every function of the package against the failing network and
\*     identity endpoint of Open at one clock instant, with a single token
\*     and every argument value; a request whose attempt ends in an
\*     exception of the transport may have been processed by the server.
\*   Overlap: one caller walks the pages of instances_list while a second
\*     caller runs guarded single-request operations at the same instant,
\*     both with one argument value.
\*   Unusual: every function of the package against a resource server that
\*     also answers with statuses that are neither 2xx nor 4xx/5xx.
\*   Typed: the functions that wrap an operation, against a server whose
\*     pages hold a record that validates or one that does not, and that
\*     also answers with statuses that are neither 2xx nor 4xx/5xx.
Open ==
    [threads |-> {"A"}, ops |-> [c \in Callers |-> Ops], clock |-> TRUE, identity_fails |-> TRUE,
     tokens |-> Tokens, faults |-> TRUE, any_pages |-> FALSE, endless |-> FALSE,
     expiry_format |-> "iso8601",
     args |-> {"q1"}, lost_answers |-> FALSE,
     page_items |-> {<<"x">>}, other_statuses |-> {}]

Fixture ==
    [threads |-> {"A"}, ops |-> [c \in Callers |-> HelperOps], clock |-> FALSE, identity_fails |-> FALSE,
     tokens |-> {"t1"}, faults |-> FALSE, any_pages |-> TRUE, endless |-> FALSE,
     expiry_format |-> GuardFormat,
     args |-> {"q1"}, lost_answers |-> FALSE,
     page_items |-> {<<"x">>}, other_statuses |-> {}]

Race ==
    [threads |-> {"A", "B"}, ops |-> [c \in Callers |-> {"instance_start_data"}],
     clock |-> FALSE,
     identity_fails |-> FALSE, tokens |-> Tokens, faults |-> FALSE,
     any_pages |-> FALSE, endless |-> FALSE, expiry_format |-> GuardFormat,
     args |-> Args, lost_answers |-> FALSE,
     page_items |-> {<<"x">>}, other_statuses |-> {}]

Flaky ==
    [threads |-> {"A"}, ops |-> [c \in Callers |-> Functions], clock |-> FALSE, identity_fails |-> TRUE,
     tokens |-> {"t1"}, faults |-> TRUE, any_pages |-> FALSE, endless |-> FALSE,
     expiry_format |-> GuardFormat,
     args |-> Args, lost_answers |-> TRUE,
     page_items |-> {<<"x">>}, other_statuses |-> {}]

Endless ==
    [threads |-> {"A"}, ops |-> [c \in Callers |-> {op \in Ops : Walks(op)}],
     clock |-> TRUE,
     identity_fails |-> FALSE, tokens |-> {"t1"}, faults |-> FALSE,
     any_pages |-> FALSE, endless |-> TRUE, expiry_format |-> GuardFormat,
     args |-> Args, lost_answers |-> FALSE,
     page_items |-> {<<"x">>}, other_statuses |-> {}]

Overlap ==
    [threads |-> {"A", "B"},
     ops |-> [c \in Callers |-> IF c = "A" THEN {"instances_list"}
                                ELSE {"instance_start_data"}],
     clock |-> FALSE, identity_fails |-> FALSE, tokens |-> Tokens, faults |-> FALSE,
     any_pages |-> FALSE, endless |-> FALSE, expiry_format |-> GuardFormat,
     args |-> {"q1"}, lost_answers |-> FALSE,
     page_items |-> {<<"x">>}, other_statuses |-> {}]

Typed ==
    [threads |-> {"A"}, ops |-> [c \in Callers |-> Wrappers], clock |-> FALSE,
     identity_fails |-> FALSE, tokens |-> {"t1"}, faults |-> FALSE,
     any_pages |-> FALSE, endless |-> FALSE, expiry_format |-> GuardFormat,
     args |-> Args, lost_answers |-> FALSE,
     page_items |-> {<<"x">>, <<"y">>}, other_statuses |-> OtherStatuses]

Unusual ==
    [threads |-> {"A"}, ops |-> [c \in Callers |-> Functions], clock |-> FALSE,
     identity_fails |-> FALSE, tokens |-> {"t1"}, faults |-> FALSE,
     any_pages |-> FALSE, endless |-> FALSE, expiry_format |-> GuardFormat,
     args |-> {"q1"}, lost_answers |-> FALSE,
     page_items |-> {<<"x">>}, other_statuses |-> OtherStatuses]

Worlds == {Open, Fixture, Race, Endless, Flaky, Overlap, Typed, Unusual}

Init ==
    /\ env \in Configs
    /\ now = 0
    /\ world \in Worlds
    /\ frame = [c \in Callers |-> IdleFrame]
    /\ obs = [c \in Callers |-> IdleObs]

\* time passes
Tick ==
    /\ world.clock
    /\ now < MaxTime
    /\ now' = now + 1
    /\ UNCHANGED <<env, world, frame, obs>>

\* a caller invokes an operation
Call(c) ==
    /\ c \in world.threads
    /\ frame[c].pc = "idle"
    /\ \E fn \in world.ops[c], a \in world.args :
       \E o \in Options(fn) :
         frame' = [frame EXCEPT ![c] =
                     [IdleFrame EXCEPT !.pc = IF Guarded(Target(fn)) THEN "wrapper"
                                              ELSE "decorated",
                                       !.fn = fn, !.op = Target(fn), !.arg = a,
                                       !.option = o,
                                       !.inner = ~GuardedWrapper(fn),
                                       !.outer_attempt = 1]]
    /\ obs' = [obs EXCEPT ![c] =
                 [IdleObs EXCEPT !.start_time = now,
                                 !.empty_at_start = ("NTX_BEARER_TOKEN" \notin DOMAIN env)]]
    /\ UNCHANGED <<env, now, world>>

\* the caller has its result or its exception
Return(c) ==
    /\ frame[c].pc \in {"returned", "raised"}
    /\ frame' = [frame EXCEPT ![c] = IdleFrame]
    /\ obs' = [obs EXCEPT ![c] = IdleObs]
    /\ UNCHANGED <<env, now, world>>

----------------------------------------------------------------------------
(* Decorators.refresh_token and Decorators.get_token *)

\* wrapper, lines 35-44
wrapper(c) ==
    /\ frame[c].pc = "wrapper"
    /\ LET d == GuardDecision(env, now)
       IN  frame' = [frame EXCEPT ![c] =
                       IF d = "ValueError"
                       THEN Raised(@, Exc("ValueError", <<>>))
                       ELSE [@ EXCEPT !.pc = d]]
    /\ UNCHANGED <<env, now, world, obs>>

\* what the identity endpoint can answer to the POST of lines 67-76
Grant(ks, tok) ==
    [k \in ks |-> IF k = "access_token" THEN tok
                  ELSE TimeString(world.expiry_format, now + TokenTTL)]

IdentityBodies ==
    { Grant(ks, tok) : ks \in SUBSET {"access_token", "expires_at"}, tok \in Tokens }

IdentityOutcomes ==
    IF world.identity_fails
    THEN { [exc |-> t, json_ok |-> FALSE, body |-> EmptyDict] : t \in TransientErrors }
         \cup { [exc |-> "none", json_ok |-> FALSE, body |-> EmptyDict] }
         \cup { [exc |-> "none", json_ok |-> TRUE, body |-> b] : b \in IdentityBodies }
    ELSE { [exc |-> "none", json_ok |-> TRUE,
            body |-> Grant({"access_token", "expires_at"}, tok)] : tok \in world.tokens }

\* get_token, lines 54-76: configuration checks, then one POST
get_token(c) ==
    /\ frame[c].pc = "get_token"
    /\ IF MissingConfig(env) # {}
       THEN /\ obs' = [obs EXCEPT ![c].provider_calls = @ + 1]
            /\ frame' = [frame EXCEPT ![c] =
                           Raised(@, Exc("Exception", <<"not set in environment">>))]
       ELSE \E out \in IdentityOutcomes :
              /\ obs' = [obs EXCEPT ![c].provider_calls = @ + 1,
                                    ![c].identity_posts = @ + 1,
                                    ![c].granted = IF "access_token" \in DOMAIN out.body
                                                   THEN out.body["access_token"]
                                                   ELSE @]
              /\ frame' = [frame EXCEPT ![c] =
                             IF out.exc # "none"
                             THEN Raised(@, Exc(out.exc, <<>>))
                             ELSE [@ EXCEPT !.pc = "set_token",
                                            !.response = [status |-> 200,
                                                          json_ok |-> out.json_ok,
                                                          body |-> out.body]]]
    /\ UNCHANGED <<env, now, world>>

\* a provider that keeps the token already stored: first write wins
set_tokenFirstWriteWins(c) ==
    /\ frame[c].pc = "set_token"
    /\ LET r == frame[c].response
       IN  IF r.json_ok /\ "access_token" \in DOMAIN r.body
           THEN /\ env' = IF "NTX_BEARER_TOKEN" \in DOMAIN env THEN env
                          ELSE DictSet(env, "NTX_BEARER_TOKEN", r.body["access_token"])
                /\ frame' = [frame EXCEPT ![c].pc = "set_expiry"]
           ELSE /\ env' = env
                /\ frame' = [frame EXCEPT ![c] =
                               Raised(@, Exc("Exception", <<"could not set OS env bearer token">>))]
    /\ UNCHANGED <<now, world, obs>>

\* get_token, lines 77-82
set_token(c) ==
    /\ frame[c].pc = "set_token"
    /\ LET r == frame[c].response
       IN  IF r.json_ok /\ "access_token" \in DOMAIN r.body
           THEN /\ env' = DictSet(env, "NTX_BEARER_TOKEN", r.body["access_token"])
                /\ frame' = [frame EXCEPT ![c].pc = "set_expiry"]
           ELSE /\ env' = env
                /\ frame' = [frame EXCEPT ![c] =
                               Raised(@, Exc("Exception", <<"could not set OS env bearer token">>))]
    /\ UNCHANGED <<now, world, obs>>

\* get_token, lines 83-87, and the return into the wrapper, line 44
set_expiry(c) ==
    /\ frame[c].pc = "set_expiry"
    /\ LET r == frame[c].response
       IN  IF "expires_at" \in DOMAIN r.body
           THEN /\ env' = DictSet(env, ExpiryKey, r.body["expires_at"])
                /\ frame' = [frame EXCEPT ![c].pc = "decorated", ![c].response = NoResponse]
           ELSE /\ env' = env
                /\ frame' = [frame EXCEPT ![c] =
                               Raised(@, Exc("Exception", <<"could not set os env expires at">>))]
    /\ UNCHANGED <<now, world, obs>>

----------------------------------------------------------------------------
(* The bodies of the operations *)

\* a loop that sends the caller's parameters with every request
LoopHeadResendsParams(f, e) ==
    IF ~Truthy(f.url) THEN Returned(f, f.results)
    ELSE IF "NTX_BEARER_TOKEN" \notin DOMAIN e THEN Raised(f, Exc("KeyError", <<"NTX_BEARER_TOKEN">>))
    ELSE [f EXCEPT !.first_request = FALSE,
                   !.headers = e["NTX_BEARER_TOKEN"],
                   !.response = NoResponse,
                   !.attempt = 1,
                   !.waits = <<>>,
                   !.pc = "request"]

\* a loop that stops by itself once it has accumulated two items
LoopHeadCapped(f, e) ==
    IF ~Truthy(f.url) \/ (Lists(f.op) /\ Len(f.results) >= 2) THEN Returned(f, f.results)
    ELSE IF "NTX_BEARER_TOKEN" \notin DOMAIN e THEN Raised(f, Exc("KeyError", <<"NTX_BEARER_TOKEN">>))
    ELSE [f EXCEPT !.params = IF f.first_request THEN f.params ELSE None,
                   !.first_request = FALSE,
                   !.headers = e["NTX_BEARER_TOKEN"],
                   !.response = NoResponse,
                   !.attempt = 1,
                   !.waits = <<>>,
                   !.pc = "request"]

\* the head of `while url:` and the start of its body: leave the loop when
\* url is falsy; otherwise drop the parameters after the first request and
\* build the headers from the stored token
LoopHead(f, e) ==
    IF ~Truthy(f.url) THEN Returned(f, f.results)
    ELSE IF "NTX_BEARER_TOKEN" \notin DOMAIN e THEN Raised(f, Exc("KeyError", <<"NTX_BEARER_TOKEN">>))
    ELSE [f EXCEPT !.params = IF f.first_request THEN f.params ELSE None,
                   !.first_request = FALSE,
                   !.headers = e["NTX_BEARER_TOKEN"],
                   !.response = NoResponse,
                   !.attempt = 1,
                   !.waits = <<>>,
                   !.pc = "request"]

\* the decorated function up to its first request
Prologue(f, e) ==
    IF ~f.inner
    THEN [f EXCEPT !.inner = TRUE, !.pc = "wrapper"]
    ELSE IF f.op = "_delete"
    THEN [f EXCEPT !.url = InitialUrl(f.op, f.arg), !.params = None,
                   !.headers = "caller", !.attempt = 1, !.waits = <<>>, !.pc = "request"]
    ELSE IF "NINTEX_BASE_URL" \notin DOMAIN e
    THEN Raised(f, Exc(IF Creates(f.op) THEN "Exception" ELSE "KeyError",
                       <<"NINTEX_BASE_URL">>))
    ELSE IF Walks(f.op)
    THEN LoopHead([f EXCEPT !.url = InitialUrl(f.op, f.arg),
                            !.params = InitialParams(f.op, f.arg, f.option),
                            !.first_request = (f.op # "workflows_list"),
                            !.results = IF f.op = "instance_get" THEN EmptyDict ELSE <<>>], e)
    ELSE IF "NTX_BEARER_TOKEN" \notin DOMAIN e
    THEN Raised(f, Exc("KeyError", <<"NTX_BEARER_TOKEN">>))
    ELSE [f EXCEPT !.url = InitialUrl(f.op, f.arg),
                   !.params = InitialParams(f.op, f.arg, f.option),
                   !.headers = e["NTX_BEARER_TOKEN"],
                   !.attempt = 1,
                   !.waits = <<>>,
                   !.pc = "request"]

\* the decorated function starts
decorated(c) ==
    /\ frame[c].pc = "decorated"
    /\ frame' = [frame EXCEPT ![c] = Prologue(@, env)]
    /\ UNCHANGED <<env, now, world, obs>>

\* the items of the pages served so far
RECURSIVE ItemsOf(_)
ItemsOf(pages) == IF pages = <<>> THEN <<>> ELSE Head(pages).items \o ItemsOf(Tail(pages))

\* the continuation references the server can put on the next page it serves
\* (the server that serves every item list has one link per page to hand out)
LinkChoices(served) ==
    IF world.endless THEN Links
    ELSE {None, EmptyStr}
           \cup (IF Len(served) + 1 >= MaxPages THEN {}
                 ELSE IF world.any_pages THEN {<<"link", "L1">>}
                 ELSE Links)

\* the item lists the server can put on the next page it serves
ItemLists(served) ==
    IF world.any_pages
    THEN SeqsUpTo(Items, MaxItems - Len(ItemsOf(served)))
    ELSE world.page_items

\* the keys the server can put in the dictionary of an instance: "status"
\* stands for the fields InstanceActions requires, "name" for an optional one
InstanceKeys ==
    IF \E i \in world.page_items : ~ValidItem(i[1]) THEN {"status", "name"} ELSE {"status"}

\* the keys the server can put in the dictionary of a single-request answer:
\* "se_txtrequestor" stands for start data with the fields a model requires
StartDataKeys ==
    IF \E i \in world.page_items : ~ValidItem(i[1]) THEN {"id", "se_txtrequestor"}
    ELSE {"id"}

WithLink(b, l) == IF l = None THEN b ELSE DictSet(b, "nextLink", l)

\* the bodies the resource server can send with a success status
PageBodies(op, served) ==
    IF Lists(op)
    THEN { WithLink(b, l) :
             b \in {EmptyDict} \cup { DictSet(EmptyDict, PayloadKey(op), items) :
                                        items \in ItemLists(served) },
             l \in LinkChoices(served) }
    ELSE IF op = "instance_get"
    THEN { WithLink(DictSet(EmptyDict, k, "x"), l) :
             k \in InstanceKeys, l \in LinkChoices(served) }
    ELSE { DictSet(EmptyDict, k, "i1") : k \in StartDataKeys }

\* the 2xx statuses the endpoint of an operation answers with
SuccessStatuses(op) ==
    IF Walks(op) THEN {200}
    ELSE IF op = "nacwrap.create_instance" THEN {200, 202}
    ELSE {200, 204}

\* the statuses of the answers the code takes for a response: raise_for_status
\* lets them through
PassedStatuses(op) == SuccessStatuses(op) \cup world.other_statuses

\* the exceptions the transport can end an attempt with: no Timeout for a
\* request made without a timeout
TransportErrors(op) ==
    (IF HasTimeout(op) THEN TransientErrors ELSE {"ConnectionError"})
        \cup OtherRequestExceptions

\* what can come of one HTTP attempt
ResourceOutcomes(op, served) ==
    IF world.endless
    THEN IF Len(served) >= MaxPages THEN {}
         ELSE { [exc |-> "none", status |-> 200, json_ok |-> TRUE, body |-> b] :
                  b \in { pb \in PageBodies(op, served) :
                            op = "instance_get" \/ PayloadKey(op) \in DOMAIN pb } }
    ELSE
    (IF world.faults
     THEN { [exc |-> t, status |-> 0, json_ok |-> FALSE, body |-> EmptyDict] :
              t \in TransportErrors(op) }
     ELSE {})
    \cup { [exc |-> "none", status |-> st, json_ok |-> TRUE,
            body |-> DictSet(EmptyDict, "error", "e1")] : st \in {404, 500} }
    \cup { [exc |-> "none", status |-> st, json_ok |-> FALSE, body |-> EmptyDict] :
             st \in PassedStatuses(op) }
    \cup { [exc |-> "none", status |-> st, json_ok |-> TRUE, body |-> b] :
             st \in PassedStatuses(op), b \in PageBodies(op, served) }

\* the page a response holds, as the server sees it
PageOf(op, out) ==
    [has_key |-> PayloadKey(op) \in DOMAIN out.body,
     items |-> IF PayloadKey(op) \in DOMAIN out.body THEN out.body[PayloadKey(op)] ELSE <<>>,
     next |-> DictGet(out.body, "nextLink")]

\* the exception one HTTP attempt ends with inside the helper (or inside the
\* try block of create_instance): the transport's, or raise_for_status's
AttemptException(out) ==
    IF out.exc # "none" THEN out.exc
    ELSE IF RaiseForStatus(out.status) THEN "HTTPError"
    ELSE "none"

\* the text of the HTTPError raise_for_status raises, "<status> Client Error:
\* <reason> for url: <url>": it names the status and the url, not the body
HTTPErrorText(status) == <<status, "Error", "for url">>

\* the exception an operation raises from its `except RequestException`
\* clause: its message carries the text of the exception caught
Wrapped(op, t) ==
    Exc(IF op = "workflows_list" THEN "WorkflowApiError" ELSE "Exception", <<t>>)

\* the operation's except clauses. _delete has none: raise_for_status's
\* HTTPError leaves it as it is. The create_instance of src/nacwrap.py has
\* one clause, for every RequestException. In the others HTTPError becomes
\* the operation's own exception carrying status code and content; Timeout
\* and ConnectionError are raised again where the operation has a clause for
\* them; every other RequestException is wrapped; tenacity's RetryError
\* matches no clause
Handled(f, t, out) ==
    IF f.op = "_delete"
    THEN Exc(t, IF t = "HTTPError" THEN HTTPErrorText(out.status) ELSE <<>>)
    ELSE IF f.op = "nacwrap.create_instance"
    THEN (IF t = "HTTPError" THEN Exc("Exception", HTTPErrorText(out.status))
          ELSE IF t \in RequestExceptions THEN Wrapped(f.op, t)
          ELSE Exc(t, <<>>))
    ELSE IF t = "HTTPError" THEN OpError(f.op, out.status, out.body)
    ELSE IF t \in TransientErrors /\ ReraisesTransient(f.op) THEN Exc(t, <<>>)
    ELSE IF t \in RequestExceptions THEN Wrapped(f.op, t)
    ELSE Exc(t, <<>>)

\* whether the server accepted and processed an instance-creation POST: it
\* did if it answered with a 2xx status, it did not if it answered with
\* another status; when the attempt ended in an exception of the transport (the
\* wait for the answer timed out, the connection was closed after the
\* request was read, the answer broke off) it may or may not have
Accepted(op, out) ==
    IF ~Creates(op) THEN {FALSE}
    ELSE IF out.exc # "none" THEN (IF world.lost_answers THEN BOOLEAN ELSE {FALSE})
    ELSE IF out.status >= 200 /\ out.status < 300 THEN {TRUE}
    ELSE {FALSE}

\* one attempt of the request: through _fetch_page/_post/_put/_delete under
\* _basic_retry, or requests.post itself for create_instance
request(c) ==
    /\ frame[c].pc = "request"
    /\ LET f == frame[c]
           o == obs[c]
           sent == IF f.attempt = 1
                   THEN Append(o.sent, [method |-> Method(f.op), url |-> f.url,
                                        params |-> f.params, bearer |-> f.headers,
                                        data |-> RequestData(f.op, f.arg),
                                        timeout |-> RequestTimeout(f.op)])
                   ELSE o.sent
       IN  \E out \in ResourceOutcomes(f.op, o.served) :
           \E acc \in Accepted(f.op, out) :
             LET t == AttemptException(out)
                 d == IF ViaExecutor(f.op) THEN RetryDecision(f.attempt, t) ELSE "propagate"
                 created == o.created + (IF acc THEN 1 ELSE 0)
                 tries == o.tries + 1
             IN  IF t = "none"
                 THEN /\ obs' = [obs EXCEPT ![c].sent = sent,
                                            ![c].created = created,
                                            ![c].tries = 0,
                                            ![c].answer = [status |-> out.status, body |-> out.body,
                                                           exc |-> out.exc],
                                            ![c].served = Append(@, PageOf(f.op, out))]
                      /\ frame' = [frame EXCEPT ![c].pc = "response",
                                                ![c].response = [status |-> out.status,
                                                                 json_ok |-> out.json_ok,
                                                                 body |-> out.body]]
                 ELSE /\ obs' = [obs EXCEPT ![c].sent = sent,
                                            ![c].created = created,
                                            ![c].tries = tries,
                                            ![c].answer = [status |-> out.status, body |-> out.body,
                                                           exc |-> out.exc],
                                            ![c].faulted = @ \/ (t \in TransientErrors)]
                      /\ frame' = [frame EXCEPT ![c] =
                                     IF d = "retry"
                                     THEN [f EXCEPT !.attempt = f.attempt + 1,
                                                    !.waits = Append(f.waits,
                                                                     WaitExponential(f.attempt))]
                                     ELSE IF d = "RetryError" THEN Raised(f, Exc("RetryError", <<>>))
                                     ELSE Raised(f, Handled(f, t, out))]
    /\ UNCHANGED <<env, now, world>>

\* a loop that keeps only the last page
AccumulateLastPage(op, results, data) ==
    IF op = "instance_get" THEN DictMerge(results, data)
    ELSE data[PayloadKey(op)]

\* results += data[key], or {**results, **data} in instance_get
Accumulate(op, results, data) ==
    IF op = "instance_get" THEN DictMerge(results, data)
    ELSE results \o data[PayloadKey(op)]

\* an operation that treats an empty page as an error
EpilogueEmptyIsError(f, e) ==
    LET r == f.response
    IN  IF f.op = "instance_resolve"
        THEN IF r.status # 204
             THEN Raised(f, Exc("UnboundLocalError", <<"e">>))
             ELSE Returned(f, None)
        ELSE IF f.op = "_delete"
        THEN Returned(f, <<"Response", r.status>>)
        ELSE IF f.op = "nacwrap.create_instance" /\ r.status # 202
        THEN Raised(f, Exc("Exception", <<"Error creating instance">>))
        ELSE IF ~Walks(f.op) /\ ~ReturnsJson(f.op)
        THEN Returned(f, None)
        ELSE IF ~r.json_ok
        THEN Raised(f, Exc("JSONDecodeError", <<>>))
        ELSE IF ~Walks(f.op)
        THEN Returned(f, r.body)
        ELSE IF Lists(f.op) /\ PayloadKey(f.op) \notin DOMAIN r.body
        THEN Raised(f, Exc("KeyError", <<PayloadKey(f.op)>>))
        ELSE IF Lists(f.op) /\ r.body[PayloadKey(f.op)] = <<>>
        THEN Raised(f, Exc("Exception", <<"no results">>))
        ELSE LoopHead([f EXCEPT !.results = Accumulate(f.op, f.results, r.body),
                                !.url = DictGet(r.body, "nextLink")], e)

\* the statements after the request: parse, accumulate, follow nextLink
Epilogue(f, e) ==
    LET r == f.response
    IN  IF f.op = "instance_resolve"
        THEN IF r.status # 204
             THEN Raised(f, Exc("UnboundLocalError", <<"e">>))
             ELSE Returned(f, None)
        ELSE IF f.op = "_delete"
        THEN Returned(f, <<"Response", r.status>>)
        ELSE IF f.op = "nacwrap.create_instance" /\ r.status # 202
        THEN Raised(f, Exc("Exception", <<"Error creating instance">>))
        ELSE IF ~Walks(f.op) /\ ~ReturnsJson(f.op)
        THEN Returned(f, None)
        ELSE IF ~r.json_ok
        THEN Raised(f, Exc("JSONDecodeError", <<>>))
        ELSE IF ~Walks(f.op)
        THEN Returned(f, r.body)
        ELSE IF Lists(f.op) /\ PayloadKey(f.op) \notin DOMAIN r.body
        THEN Raised(f, Exc("KeyError", <<PayloadKey(f.op)>>))
        ELSE LoopHead([f EXCEPT !.results = Accumulate(f.op, f.results, r.body),
                                !.url = DictGet(r.body, "nextLink")], e)

\* an operation body that forgets the stored token once its response is in
responseDropsToken(c) ==
    /\ frame[c].pc = "response"
    /\ frame' = [frame EXCEPT ![c] = Epilogue(@, env)]
    /\ env' = [k \in (DOMAIN env) \ {"NTX_BEARER_TOKEN"} |-> env[k]]
    /\ UNCHANGED <<now, world, obs>>

\* the response has arrived
response(c) ==
    /\ frame[c].pc = "response"
    /\ frame' = [frame EXCEPT ![c] = Epilogue(@, env)]
    /\ UNCHANGED <<env, now, world, obs>>

----------------------------------------------------------------------------
(* Specification *)

Next ==
    \/ Tick
    \/ \E c \in Callers :
         \/ Call(c)
         \/ wrapper(c)
         \/ get_token(c)
         \/ set_token(c)
         \/ set_expiry(c)
         \/ decorated(c)
         \/ request(c)
         \/ response(c)
         \/ Return(c)

Spec == Init /\ [][Next]_vars

\* one step of the thread of caller c inside a call
Step(c) ==
    \/ wrapper(c)
    \/ get_token(c)
    \/ set_token(c)
    \/ set_expiry(c)
    \/ decorated(c)
    \/ (HasTimeout(frame[c].op) /\ request(c))
    \/ response(c)

\* A thread inside a call keeps running, and every HTTP attempt completes
\* when it is made with a timeout: a step that stays possible is eventually
\* taken.
\* Termination is explored against the failing network and identity endpoint
\* of Flaky and against the Endless server.
FairInit == Init /\ world \in {Flaky, Endless}

FairSpec == FairInit /\ [][Next]_vars /\ \A c \in Callers : WF_vars(Step(c))

----------------------------------------------------------------------------
(* Claims *)

GuardStates == {"wrapper", "get_token", "set_token", "set_expiry"}
BodyStates == {"decorated", "request", "response"}

\* C1 (token freshness): whenever a guarded operation is about to run, a
\* token is stored and the expiry stored with it is not earlier than the time
\* at which the call started.
C1_TokenFreshness ==
    \A c \in Callers :
        (Guarded(frame[c].op) /\ frame[c].pc = "decorated")
            => CredentialState(env, obs[c].start_time) = "valid"

\* a guarded operation is about to run at the end of the clock's range, after
\* every token issued at time 0 has expired
C1_Witness ==
    \E c \in Callers :
        /\ Guarded(frame[c].op)
        /\ frame[c].pc = "decorated"
        /\ obs[c].start_time = MaxTime
        /\ MaxTime > TokenTTL
        /\ CredentialState(env, obs[c].start_time) = "valid"

\* C2 (refresh idempotence): a guard that finds a token stored whose stored
\* expiry is not earlier than the clock does not invoke the Token Provider.
C2_RefreshIdempotence ==
    [][\A c \in Callers :
         (frame[c].pc = "wrapper" /\ frame[c].outer_attempt = 1
            /\ CredentialState(env, now) = "valid")
            => frame'[c].pc # "get_token"]_vars

\* C3 (refresh before use): a guard that finds no token, or a stored expiry
\* earlier than the clock, invokes the Token Provider; while the guard or the
\* provider runs the operation has sent nothing; a request is sent only after
\* a provider call; and instances_list called on an empty store runs its body
\* after exactly one provider call.
C3_RefreshBeforeUse ==
    /\ [][\A c \in Callers :
            (frame[c].pc = "wrapper" /\ CredentialState(env, now) # "valid"
               /\ frame'[c].pc # "wrapper")
               => frame'[c].pc = "get_token"]_vars
    /\ [](\A c \in Callers :
            LET f == frame[c]
                o == obs[c]
            IN  Guarded(f.op) =>
                  /\ (f.pc \in GuardStates /\ f.outer_attempt = 1) => o.sent = <<>>
                  /\ (o.sent # <<>> /\ o.empty_at_start) => o.provider_calls >= 1
                  /\ (f.fn = "instances_list" /\ o.empty_at_start
                        /\ f.pc \in BodyStates \cup {"returned"})
                       => o.provider_calls = 1)

\* instances_list, called on an empty store, has fetched two pages after one
\* provider call
C3_Witness ==
    \E c \in Callers :
        /\ frame[c].op = "instances_list"
        /\ obs[c].empty_at_start
        /\ obs[c].provider_calls = 1
        /\ Len(obs[c].sent) = 2
        /\ frame[c].pc = "returned"

\* C4 (both fields stored): when a provider invocation succeeds, the stored
\* token is the response's access_token and the expiry the guard reads next
\* is the response's expires_at.
C4_BothFieldsStored ==
    [][\A c \in Callers :
         (frame[c].pc = "set_expiry" /\ frame'[c].pc = "decorated")
            => /\ env'["NTX_BEARER_TOKEN"] = frame[c].response.body["access_token"]
               /\ GuardExpiresAt(env') = frame[c].response.body["expires_at"]]_vars

\* C5 (retry bound): the executor never makes more than 5 attempts; a
\* request given up with RetryError was attempted exactly 5 times (by the
\* helper, or by the outer policy of create_instance/instance_get around the
\* wrapper); and the fifth attempt is the last one: after it the call has its
\* response or has raised.
C5_RetryBound ==
    /\ [](\A c \in Callers :
            LET f == frame[c]
            IN  /\ f.attempt <= MaxAttempts
                /\ f.outer_attempt <= MaxAttempts
                /\ (f.pc = "raised" /\ f.err.type = "RetryError" /\ ~OuterRetry(f.op))
                      => (f.attempt = MaxAttempts /\ obs[c].faulted)
                /\ (f.pc = "raised" /\ f.err.type = "RetryError" /\ OuterRetry(f.op))
                      => (f.attempt = MaxAttempts \/ f.outer_attempt = MaxAttempts))
    /\ [][\A c \in Callers :
            (ViaExecutor(frame[c].op) /\ frame[c].pc = "request"
               /\ frame[c].attempt = MaxAttempts /\ frame'[c] # frame[c])
               => frame'[c].pc \in {"response", "raised"}]_vars

\* a helper has given up after its fifth attempt
C5_Witness ==
    \E c \in Callers :
        /\ frame[c].pc = "raised"
        /\ frame[c].err.type = "RetryError"
        /\ frame[c].op = "task_delegate"
        /\ frame[c].attempt = MaxAttempts

\* C6 (retry exclusivity): the executor makes a further attempt only after a
\* connection failure or a timeout; a request whose first attempt is answered
\* with an error status is attempted once.
C6_RetryExclusivity ==
    \A c \in Callers :
        LET f == frame[c]
        IN  ViaExecutor(f.op) =>
              /\ f.attempt > 1 => obs[c].faulted
              /\ (f.pc = "raised" /\ Len(f.err.msg) = 2 /\ ~obs[c].faulted) => f.attempt = 1

\* the first attempt of a request was answered 404 and the operation raised
C6_Witness ==
    \E c \in Callers :
        /\ frame[c].pc = "raised"
        /\ frame[c].op = "instance_start_data"
        /\ Len(frame[c].err.msg) = 2
        /\ frame[c].err.msg[1] = 404
        /\ frame[c].attempt = 1
        /\ Len(obs[c].sent) = 1

\* functions that hand the result of the operation to the caller as it is
ReturnsRaw(fn) == fn \in Ops \cup {"get_instance_data"}

\* C7 (pagination completeness): a list operation returns the concatenation
\* of the item lists of the pages served, in the order served.
C7_PaginationCompleteness ==
    \A c \in Callers :
        (Lists(frame[c].op) /\ ReturnsRaw(frame[c].fn) /\ frame[c].pc = "returned")
            => frame[c].ret = ItemsOf(obs[c].served)

\* pages of sizes 2, 2, 1, the first two with a continuation reference, an
\* item repeated across pages: 5 items returned
C7_Witness ==
    \E c \in Callers :
        /\ frame[c].op = "task_search"
        /\ frame[c].pc = "returned"
        /\ Len(obs[c].served) = 3
        /\ Len(obs[c].served[1].items) = 2
        /\ Len(obs[c].served[2].items) = 2
        /\ Len(obs[c].served[3].items) = 1
        /\ obs[c].served[1].items[1] = obs[c].served[2].items[2]
        /\ Len(frame[c].ret) = 5
        /\ Len(obs[c].sent) = 3

\* a continuation reference, as the server means it
Continues(l) == l \in Links

\* C8 (request count): without faults (no attempt ended in an exception of
\* the transport) a walk has sent one request per page
\* served (one more if the last was answered with an error status); a walk
\* that returned stopped at the first page without a continuation reference;
\* a single page without continuation reference gives 1 request and as many
\* results as the page has items.
C8_RequestCount ==
    \A c \in Callers :
        LET f == frame[c]
            o == obs[c]
            n == Len(o.served)
        IN  (Walks(f.op) /\ ~o.faulted /\ o.answer.exc = "none") =>
              /\ Len(o.sent) \in {n, n + 1}
              /\ Len(o.sent) = n + 1 => (f.pc = "raised" /\ Len(f.err.msg) = 2)
              /\ \A i \in 1..(n - 1) : Continues(o.served[i].next)
              /\ f.pc = "returned" => (Len(o.sent) = n /\ n >= 1 /\ ~Continues(o.served[n].next))
              /\ (f.pc = "request" /\ n >= 1) => Continues(o.served[n].next)
              /\ (Lists(f.op) /\ ReturnsRaw(f.fn) /\ f.pc = "returned" /\ n = 1)
                    => (Len(o.sent) = 1 /\ Len(f.ret) = Len(o.served[1].items))

\* a single page of two items and no continuation reference was returned
C8_Witness ==
    \E c \in Callers :
        /\ frame[c].op = "workflows_list"
        /\ frame[c].pc = "returned"
        /\ ~obs[c].faulted
        /\ Len(obs[c].served) = 1
        /\ Len(obs[c].served[1].items) = 2
        /\ Len(obs[c].sent) = 1

\* the first page reports zero items and carries no continuation reference
EmptyFirstPage(o) ==
    /\ Len(o.served) = 1
    /\ o.served[1].has_key
    /\ o.served[1].items = <<>>
    /\ ~Continues(o.served[1].next)

\* C9 (empty result): a list operation whose first page reports zero items
\* and no continuation reference returns the empty sequence and does not
\* raise.
C9_EmptyResult ==
    \A c \in Callers :
        (Lists(frame[c].op) /\ EmptyFirstPage(obs[c]) /\ frame[c].pc # "response")
            => (frame[c].pc = "returned" /\ frame[c].ret = <<>>)

\* instances_list returned the empty sequence after an empty first page
C9_Witness ==
    \E c \in Callers :
        /\ frame[c].op = "instances_list"
        /\ EmptyFirstPage(obs[c])
        /\ frame[c].pc = "returned"
        /\ frame[c].ret = <<>>

\* C10 (cursor following): the first request of a walk goes to the initial
\* url with the caller's parameters; every later request goes to the
\* continuation reference of the page served just before it, without
\* parameters.
C10_CursorFollowing ==
    \A c \in Callers :
        LET f == frame[c]
            o == obs[c]
        IN  Walks(f.op) =>
              \A i \in 1..Len(o.sent) :
                  IF i = 1
                  THEN /\ o.sent[1].url = InitialUrl(f.op, f.arg)
                       /\ o.sent[1].params = InitialParams(f.op, f.arg, f.option)
                  ELSE /\ i - 1 <= Len(o.served)
                       /\ o.sent[i].url = o.served[i - 1].next
                       /\ o.sent[i].params = None

\* a walk with parameters followed two different continuation references
C10_Witness ==
    \E c \in Callers :
        /\ frame[c].op = "instances_list"
        /\ Len(obs[c].sent) = 3
        /\ obs[c].sent[1].params # None
        /\ obs[c].sent[2].url # obs[c].sent[3].url
        /\ obs[c].sent[3].params = None

\* a page of the walk failed: the latest request was answered by no page
\* (error status, or a transient fault on every attempt), or a page served
\* lacks the payload key (or is not JSON at all)
PageFailed(op, o) ==
    \/ Len(o.sent) > Len(o.served)
    \/ \E i \in 1..Len(o.served) : ~o.served[i].has_key

C12_PaginationTermination ==
    /\ \A c \in Callers :
          (~world.endless /\ Walks(frame[c].op)
             /\ frame[c].pc \notin {"idle", "returned", "raised"})
            ~> (frame[c].pc \in {"returned", "raised"})
    /\ [](\A c \in Callers :
            (world.endless /\ Walks(frame[c].op) /\ obs[c].sent # <<>>)
               => frame[c].pc \in {"request", "response"})
    /\ \A c \in Callers :
          (world.endless /\ Walks(frame[c].op) /\ obs[c].sent # <<>>)
            ~> (Len(obs[c].served) = MaxPages /\ frame[c].pc = "request")

\* a list operation has received MaxPages pages, each with a continuation
\* reference, and is about to request the next one
C12_Witness ==
    \E c \in Callers :
        /\ world.endless
        /\ frame[c].op = "workflows_list"
        /\ frame[c].pc = "request"
        /\ Len(obs[c].served) = MaxPages
        /\ \A i \in 1..MaxPages : Continues(obs[c].served[i].next)
        /\ Len(frame[c].results) = MaxPages

\* C13 (configuration error): a Token Provider invoked while one of base url,
\* client id, client secret or grant type is absent raises without a POST to
\* the identity endpoint and without touching the store; the operation's body
\* does not run and the provider is not invoked a second time.
C13_ConfigurationError ==
    /\ [][\A c \in Callers :
            (frame[c].pc = "get_token" /\ ConfigKeys \ DOMAIN env # {}
               /\ frame'[c] # frame[c])
               => /\ frame'[c].pc = "raised"
                  /\ frame'[c].err.type = "Exception"
                  /\ env' = env
                  /\ obs'[c].identity_posts = obs[c].identity_posts
                  /\ obs'[c].sent = <<>>]_vars
    /\ [](\A c \in Callers :
            (frame[c].pc = "raised" /\ frame[c].err.msg = <<"not set in environment">>)
               => /\ obs[c].provider_calls = 1
                  /\ obs[c].identity_posts = 0
                  /\ obs[c].sent = <<>>
                  /\ frame[c].outer_attempt = 1)

\* create_instance, wrapped by the retry policy, raised the configuration
\* error of a provider that found the base url but not another key
C13_Witness ==
    \E c \in Callers :
        /\ frame[c].op = "create_instance"
        /\ frame[c].pc = "raised"
        /\ frame[c].err.msg = <<"not set in environment">>
        /\ "NINTEX_BASE_URL" \in DOMAIN env
        /\ obs[c].provider_calls = 1
        /\ obs[c].identity_posts = 0

\* C14 (token exchange is never retried): when the exchange at the identity
\* endpoint fails (connection failure, timeout, unparsable response, missing
\* access_token or expires_at), the guarded operation raises to its caller,
\* and the call has made exactly one POST to the identity endpoint.
C14_TokenExchangeNeverRetried ==
    [][\A c \in Callers :
         (Guarded(frame[c].op)
            /\ frame[c].pc \in {"get_token", "set_token", "set_expiry"}
            /\ ConfigKeys \subseteq DOMAIN env
            /\ frame'[c] # frame[c]
            /\ frame'[c].pc \notin {"set_token", "set_expiry", "decorated"})
            => (frame'[c].pc = "raised" /\ obs'[c].identity_posts = 1)]_vars

\* C15 (one check per call): once the body of a guarded operation runs, the
\* guard and the Token Provider are not entered again during that call: not
\* between retry attempts, not between pages.
C15_OneCheckPerCall ==
    [][\A c \in Callers :
         (Guarded(frame[c].op) /\ frame[c].pc \in BodyStates)
            => frame'[c].pc \notin GuardStates]_vars

\* the Token Provider invocation of the running call of c has finished
ExchangeDone(c) == obs[c].granted # "none" /\ frame[c].pc \notin GuardStates \cup {"idle"}

\* C16 (benign refresh race): with two callers in guarded operations, each
\* provider writes the token of its own exchange over whatever is stored;
\* once both invocations have finished the store holds the token issued to
\* one of the two, with an expiry that has not passed; and each operation
\* sends a stored token while the stored credential is valid.
C16_BenignRefreshRace ==
    /\ [][\A c \in Callers :
            (frame[c].pc = "set_token" /\ frame'[c].pc = "set_expiry")
               => env'["NTX_BEARER_TOKEN"] = obs[c].granted]_vars
    /\ []((world.threads = Callers /\ \A c \in Callers : ExchangeDone(c))
             => /\ env["NTX_BEARER_TOKEN"] \in {obs[c].granted : c \in Callers}
                /\ CredentialState(env, now) = "valid")
    /\ [](\A c \in Callers :
            (world.threads = Callers /\ Guarded(frame[c].op)
               /\ frame[c].pc \in {"request", "response"})
               => /\ frame[c].headers \in Tokens
                  /\ CredentialState(env, now) = "valid")

\* both callers found no credential and were issued different tokens; the
\* store holds the token of B, and the operation of A runs with it
C16_Witness ==
    /\ world.threads = Callers
    /\ obs["A"].empty_at_start /\ obs["B"].empty_at_start
    /\ frame["A"].pc = "request" /\ frame["B"].pc = "request"
    /\ obs["A"].granted # obs["B"].granted
    /\ env["NTX_BEARER_TOKEN"] = obs["B"].granted
    /\ frame["A"].headers = obs["B"].granted

\* operations that send "Authorization: Bearer <stored token>"
SendsBearer(op) == op \in Ops \ {"_delete"}

\* C17 (every bearer operation is guarded): an operation that sends the
\* bearer header is not about to issue a request while the credential stored
\* by the Token Provider (token and expiry) had expired when its call started.
C17_EveryOperationGuarded ==
    \A c \in Callers :
        (SendsBearer(frame[c].op) /\ frame[c].pc = "request" /\ ExpiryKey \in DOMAIN env)
            => CredentialState(env, obs[c].start_time) # "expired"

\* the resource operations: every function that sends a request to the
\* resource server for its caller (_delete is a helper of the executor that
\* no operation calls)
ResourceOps == Ops \ {"_delete"}

\* C18 (remote API error): once the resource server has answered a request
\* of a resource operation with a 4xx or 5xx status, the operation has
\* raised, with the status code and the response body in the exception, and
\* has returned nothing.
C18_RemoteApiError ==
    \A c \in Callers :
        LET f == frame[c]
            a == obs[c].answer
        IN  (f.op \in ResourceOps /\ RaiseForStatus(a.status))
              => /\ f.pc = "raised"
                 /\ f.err.msg = <<a.status, a.body>>
                 /\ f.ret = <<>>

\* C19 (executor success guarantee): for GET, POST, PUT and DELETE alike, a
\* response the helper has handed to its caller has a 2xx status, the one the
\* server answered with; after a 4xx or 5xx answer the caller holds no
\* response: the helper has raised.
C19_ExecutorSuccessGuarantee ==
    \A c \in Callers :
        LET f == frame[c]
            a == obs[c].answer
        IN  ViaExecutor(f.op) =>
              /\ f.pc = "response"
                    => /\ f.response.status = a.status
                       /\ f.response.status >= 200 /\ f.response.status < 300
              /\ RaiseForStatus(a.status)
                    => /\ f.pc = "raised"
                       /\ f.response = NoResponse

\* the waits after failed attempts 1 to 4, as the schedule is described
DoublingSchedule == <<4, 8, 10, 10>>

\* C20 (backoff schedule): the waits of a request between its attempts are
\* 4, 8, 10, 10 seconds, each between 4 and 10 seconds.
C20_BackoffSchedule ==
    \A c \in Callers :
        LET w == frame[c].waits
        IN  \A i \in 1..Len(w) :
              /\ w[i] = DoublingSchedule[i]
              /\ w[i] >= 4 /\ w[i] <= 10

\* C21 (expiry format fails fast): a guard that finds a token stored with an
\* expiry that is not in the format it parses raises a parsing error; it
\* enters neither the Token Provider nor the operation.
C21_ExpiryFormatFailsFast ==
    [][\A c \in Callers :
         (frame[c].pc = "wrapper"
            /\ "NTX_BEARER_TOKEN" \in DOMAIN env
            /\ ExpiryKey \in DOMAIN env
            /\ env[ExpiryKey].fmt # GuardFormat
            /\ frame'[c] # frame[c])
            => (frame'[c].pc = "raised" /\ frame'[c].err.type = "ValueError")]_vars

\* the integer the argument of workflows_list stands for (limit=1, limit=2)
LimitOf(a) == IF a = "q1" THEN 1 ELSE 2

\* C22 (limit bounds the result): workflows_list(limit=L) returns at most L
\* workflows, whatever chain of pages the server serves; stated here for the
\* servers that honour the limit on each page they serve.
C22_LimitBoundsResult ==
    \A c \in Callers :
        (frame[c].op = "workflows_list" /\ frame[c].pc = "returned"
            /\ \A i \in 1..Len(obs[c].served) :
                   Len(obs[c].served[i].items) <= LimitOf(frame[c].arg))
            => Len(frame[c].ret) <= LimitOf(frame[c].arg)

\* C23 (resolve request body): the POST of instance_resolve carries the
\* caller's resolveType and message in its body.
C23_ResolveSendsBody ==
    \A c \in Callers :
        frame[c].op = "instance_resolve"
            => \A i \in 1..Len(obs[c].sent) :
                   /\ obs[c].sent[i].method = "POST"
                   /\ obs[c].sent[i].url = <<"base", "instance_resolve", frame[c].arg>>
                   /\ obs[c].sent[i].data = JsonDumps(<<"resolveType, message", frame[c].arg>>)

\* C25 (at most one creation per call): during one call of create_instance
\* the server processes at most one instance-creation POST.
C25_AtMostOneCreation ==
    \A c \in Callers :
        frame[c].op = "create_instance" => obs[c].created <= 1

\* C28 (one token per walk): every page request of a pagination walk carries
\* the bearer token of the walk's first request.
C28_OneTokenPerWalk ==
    \A c \in Callers :
        Walks(frame[c].op)
            => \A i \in 1..Len(obs[c].sent) : obs[c].sent[i].bearer = obs[c].sent[1].bearer

\* C24 (frame of the credential state): the four configuration values never
\* change; a stored token is never removed; and the store changes only in a
\* step of the Token Provider, so the executor, the pagination walk and the
\* operation bodies leave the stored token and the stored expiry as they are.
C24_CredentialFrame ==
    [][/\ \A k \in ConfigKeys :
            /\ (k \in DOMAIN env') = (k \in DOMAIN env)
            /\ (k \in DOMAIN env => env'[k] = env[k])
       /\ ("NTX_BEARER_TOKEN" \in DOMAIN env => "NTX_BEARER_TOKEN" \in DOMAIN env')
       /\ (env' # env
             => \E c \in Callers : /\ frame[c].pc \in {"set_token", "set_expiry"}
                                   /\ frame'[c] # frame[c])]_vars

\* a walk of two pages, one of them retried after a transient fault, has
\* returned and the store still holds the token and expiry it started with
C24_Witness ==
    \E c \in Callers :
        /\ Walks(frame[c].op) /\ frame[c].pc = "returned"
        /\ Len(obs[c].sent) >= 2 /\ obs[c].faulted
        /\ ConfigKeys \subseteq DOMAIN env
        /\ ExpiryKey \in DOMAIN env
        /\ "NTX_BEARER_TOKEN" \in DOMAIN env
        /\ env["NTX_BEARER_TOKEN"] = obs[c].sent[1].bearer

\* a Token Provider invocation is in progress
ProviderRunning(c) == frame[c].pc \in {"get_token", "set_token", "set_expiry"}

\* C26 (no torn credential): whenever no Token Provider invocation is in
\* progress, a stored token is accompanied by the expiry of the response it
\* came from; in particular it is accompanied by an expiry.
C26_NoTornCredential ==
    ((\A c \in Callers : ~ProviderRunning(c)) /\ "NTX_BEARER_TOKEN" \in DOMAIN env)
        => ExpiryKey \in DOMAIN env

\* the messages of the exceptions get_token raises
ProviderErrors == {<<"not set in environment">>,
                   <<"could not set OS env bearer token">>,
                   <<"could not set os env expires at">>}

\* C27 (failed refresh leaves the store unchanged): when the only Token
\* Provider invocation of a call that found the store empty ends by raising,
\* the store is still empty.
C27_FailedRefreshLeavesStore ==
    \A c \in Callers :
        (world.threads = {c} /\ frame[c].pc = "raised"
            /\ frame[c].err.msg \in ProviderErrors
            /\ obs[c].empty_at_start /\ obs[c].provider_calls = 1)
            => /\ "NTX_BEARER_TOKEN" \notin DOMAIN env
               /\ ExpiryKey \notin DOMAIN env

\* C29 (nested retry does not multiply attempts): instance_get never makes
\* more than 5 HTTP attempts for one page request, over both retry layers; the
\* fifth attempt that ends in a transient fault (no answer from the server)
\* makes the call raise RetryError at once; and a call that raised RetryError after sending a
\* request made exactly 5 attempts for it.
C29_NestedRetryDoesNotMultiply ==
    /\ [](\A c \in Callers :
            frame[c].op = "instance_get"
               => /\ obs[c].tries <= MaxAttempts
                  /\ (frame[c].pc = "raised" /\ frame[c].err.type = "RetryError"
                        /\ obs[c].sent # <<>>)
                        => (obs[c].tries = MaxAttempts /\ frame[c].attempt = MaxAttempts))
    /\ [][\A c \in Callers :
            (frame[c].op = "instance_get" /\ frame[c].pc = "request"
               /\ obs[c].tries = MaxAttempts - 1 /\ obs'[c].tries = MaxAttempts
               /\ obs'[c].answer.exc \in TransientErrors)
               => (frame'[c].pc = "raised" /\ frame'[c].err.type = "RetryError")]_vars

\* the first page request of instance_get failed five times with the waits
\* 4, 4, 4, 8 in between, within the first run of the outer policy
C29_Witness ==
    \E c \in Callers :
        /\ frame[c].op = "instance_get" /\ frame[c].pc = "raised"
        /\ frame[c].err.type = "RetryError"
        /\ Len(obs[c].sent) = 1 /\ obs[c].served = <<>>
        /\ obs[c].tries = MaxAttempts
        /\ Len(frame[c].waits) = MaxAttempts - 1
        /\ frame[c].outer_attempt = 1

====
